---- MODULE Spec2Model ----
(***************************************************************************)
(* Model of ingress-frontend-zeroconf.go: the informer's Add/Update/Delete *)
(* handlers that keep the map zeroconfServers (LocalHostname -> mDNS       *)
(* server) in step with the Ingress objects, and main's signal-driven      *)
(* shutdown that runs the deferred unregisterAllHostnames.                 *)
(*                                                                         *)
(* Two goroutines touch the map: the informer goroutine (go controller.Run)*)
(* running one handler at a time, and the main goroutine, which after      *)
(* <-stop runs unregisterAllHostnames without waiting for the informer.    *)
(* Handlers advance one loop iteration per step so that this overlap is    *)
(* visible.                                                                *)
(***************************************************************************)
EXTENDS Integers, Sequences, FiniteSets, TLC

\* ------------------------------------------------------------------ bounds
\* Register calls the model follows (each one allocates a new *zeroconf.Server).
MaxHandles == 2
\* The same, for the runs over three-rule Ingresses.
MaxHandles3 == 3
\* Handlers the informer still calls after stop is closed (its queue's backlog).
MaxLateEvents == 1

\* ------------------------------------------------------------- input values
\* Host names are sequences of characters, so that HasSuffix / TrimSuffix work
\* on them as strings.HasSuffix / strings.TrimSuffix do.
LocalSuffix == <<".", "l", "o", "c", "a", "l">>
HostA == <<"a">> \o LocalSuffix
HostB == <<"b">> \o LocalSuffix
HostC == <<"c">> \o LocalSuffix
HostD == <<"d">> \o LocalSuffix
HostX == <<"x", ".", "c", "o", "m">>

\* Spec.Rules of the Ingress objects the watch delivers (hosts, in rule order).
RuleLists ==
    { <<HostA>>, <<HostA, HostB>>, <<HostB, HostA>>, <<HostX, HostA>> }

\* Three-rule Ingresses that differ in one host.
RuleLists3 == { <<HostA, HostB, HostC>>, <<HostA, HostB, HostD>> }

\* Spec.TLS: a nil slice, an allocated slice of length 0, a slice with entries.
TLSValues == {"nil", "empty", "nonempty"}

IP1 == "10.0.0.1"
IP2 == "10.0.0.2"
ValidIPs == {IP1, IP2}
\* What net.IP(nil).String() prints.
NilIP == "<nil>"

\* Status.LoadBalancer.Ingress: the IP fields of its entries.
StatusLists == { <<>>, <<IP1>>, <<IP2>> }

\* The Ingress objects the watch delivers: every rule list on an Ingress with
\* a load-balancer address, and every status shape on a one-rule Ingress.
Ingresses ==
    [TLS : {"nil"}, Rules : RuleLists, Status : {<<IP1>>}]
        \cup [TLS : {"nil"}, Rules : {<<HostA>>}, Status : StatusLists]

\* Three-rule Ingresses, with and without a load-balancer address.
Ingresses3 == [TLS : {"nil"}, Rules : RuleLists3, Status : {<<IP1>>, <<>>}]

\* A one-rule Ingress in every TLS shape, with and without an address.
IngressesTLS == [TLS : TLSValues, Rules : {<<HostA>>}, Status : {<<IP1>>, <<>>}]

\* ------------------------------------------------------------------- state
VARIABLES
    servers,    \* zeroconfServers: LocalHostname -> handle (index into zeroconf)
    zeroconf,   \* the mDNS library: every server ever registered, by handle
    handler,    \* the informer goroutine: position and locals of the handler
    ev,         \* the event being handled / last handled, with what it did
    stop,       \* the stop channel is closed
    main,       \* the main goroutine: position, and the range loop's progress
    proc,       \* "running", "exited" (main returned) or "crashed" (panic)
    hist,       \* what happened around shutdown
    budget      \* register calls this run may still be followed for

vars == <<servers, zeroconf, handler, ev, stop, main, proc, hist, budget>>

EmptyMap == [k \in {} |-> 0]

\* ---------------------------------------------------------- pure functions
HasSuffix(s, suffix) ==
    /\ Len(s) >= Len(suffix)
    /\ SubSeq(s, Len(s) - Len(suffix) + 1, Len(s)) = suffix

TrimSuffix(s, suffix) ==
    IF HasSuffix(s, suffix) THEN SubSeq(s, 1, Len(s) - Len(suffix)) ELSE s

IngressTLS(ingress) == ingress.TLS # "nil"

RECURSIVE LocalHosts(_, _)
LocalHosts(rules, tls) ==
    IF rules = <<>> THEN <<>>
    ELSE IF ~HasSuffix(Head(rules), LocalSuffix)
         THEN LocalHosts(Tail(rules), tls)
         ELSE <<[TLS |-> tls, Hostname |-> TrimSuffix(Head(rules), LocalSuffix)]>>
              \o LocalHosts(Tail(rules), tls)

ParseIP(s) == IF s \in ValidIPs THEN s ELSE NilIP

\* The hostnames, the IP, and whether Status.LoadBalancer.Ingress[0] panics
\* (index out of range on an empty list).
getIngressHostnames(ingress) ==
    [ hostnames |-> LocalHosts(ingress.Rules, IngressTLS(ingress)),
      panics    |-> Len(ingress.Status) = 0,
      ip        |-> IF Len(ingress.Status) = 0 THEN NilIP
                    ELSE ParseIP(ingress.Status[1]) ]

\* getIngressHostnames, tabulated over the Ingress objects of the model.
Extracted ==
    [obj \in Ingresses \cup Ingresses3 \cup IngressesTLS |-> getIngressHostnames(obj)]

DeepEqual(a, b) == a = b

\* port := 80 whatever local.TLS is.
PortHTTP(local) == 80

\* port := 80; if local.TLS { port = 443 }
Port(local) == IF local.TLS THEN 443 ELSE 80

Range(s) == { s[i] : i \in 1..Len(s) }

\* ------------------------------------------------------------------- Init
IdleHandler == [pc |-> "idle", unreg |-> <<>>, toreg |-> <<>>, ip |-> NilIP]

NoEvent ==
    [kind |-> "none", old |-> <<>>, new |-> <<>>, pre |-> EmptyMap,
     calls |-> <<>>, repeat |-> FALSE]

InitProgram ==
    /\ servers = EmptyMap
    /\ zeroconf = <<>>
    /\ handler = IdleHandler
    /\ ev = NoEvent
    /\ stop = FALSE
    /\ main = [pc |-> "wait", visited |-> {}, added |-> {}]
    /\ proc = "running"
    /\ hist = [atStop |-> EmptyMap, mainCalls |-> {},
               late |-> 0, lateEvent |-> FALSE, lateRegister |-> FALSE]

Init ==
    /\ InitProgram
    /\ budget = MaxHandles

Init3 ==
    /\ InitProgram
    /\ budget = MaxHandles3

\* ------------------------------------------------------- the mDNS library
\* zeroconf.RegisterProxy returns a server or an error.
RegisterOutcomes == {TRUE, FALSE}

NewServer(local, ip, port) ==
    [local |-> local, ip |-> ip, port |-> port, active |-> TRUE, shutdowns |-> 0]

\* server.Shutdown()
Shutdown(z, h) ==
    [z EXCEPT ![h].active = FALSE, ![h].shutdowns = @ + 1]

\* ---------------------------------------------------------- map helpers
Has(m, k) == k \in DOMAIN m

\* The write skipped when the key is already there.
MapPutIfAbsent(m, k, v) ==
    [x \in DOMAIN m \cup {k} |-> IF x \in DOMAIN m THEN m[x] ELSE v]

\* servers[local] = server
MapPut(m, k, v) == [x \in DOMAIN m \cup {k} |-> IF x = k THEN v ELSE m[x]]

\* delete(servers, local) left out.
MapDeleteKeeps(m, k) == m

\* Every entry deleted, not only the one of local.
MapClear(m, k) == EmptyMap

\* delete(servers, local)
MapDelete(m, k) == [x \in DOMAIN m \ {k} |-> m[x]]

\* The error of RegisterProxy ignored: the nil server is stored.
StoreServerAnyway(m, local, ok, h) == MapPut(m, local, IF ok THEN h ELSE 0)

\* if err != nil { ...; continue }
\* servers[local] = server
StoreServer(m, local, ok, h) == IF ok THEN MapPut(m, local, h) ELSE m

\* ------------------------------------------------------- event handlers
Call(op, local, h, ip) ==
    [op |-> op, local |-> local, handle |-> h, ip |-> ip, port |-> Port(local)]

NextPc(unreg, toreg) ==
    IF unreg # <<>> THEN "unregister"
    ELSE IF toreg # <<>> THEN "register" ELSE "idle"

AllRegistered(calls) ==
    \A i \in 1..Len(calls) : calls[i].op = "register" => calls[i].handle # 0

\* A handler is called: the informer goroutine is between two handlers and the
\* process is alive.  Closing stop does not by itself keep the informer from
\* calling a handler: main never waits for controller.Run to return.
CanDeliver == proc = "running" /\ handler.pc = "idle"

\* The handler's entry: extraction has run (or panicked), the loops are ahead.
Enter(kind, old, new, panics, unreg, toreg, ip, repeat) ==
    /\ Len(toreg) <= budget
    /\ stop => hist.late < MaxLateEvents
    /\ ev' = [kind |-> kind, old |-> old, new |-> new, pre |-> servers,
              calls |-> <<>>, repeat |-> repeat]
    /\ hist' = [hist EXCEPT !.late = IF stop THEN @ + 1 ELSE @,
                             !.lateEvent = @ \/ main.pc = "cleanup"]
    /\ IF panics
       THEN /\ proc' = "crashed"
            /\ handler' = [IdleHandler EXCEPT !.pc = "panic"]
       ELSE /\ proc' = proc
            /\ handler' = [pc |-> NextPc(unreg, toreg), unreg |-> unreg,
                           toreg |-> toreg, ip |-> ip]
    /\ budget' = budget - Len(toreg)
    /\ UNCHANGED <<servers, zeroconf, stop, main>>

AddFunc(obj) ==
    /\ CanDeliver
    /\ LET r == Extracted[obj] IN
       Enter("Add", <<>>, r.hostnames, r.panics, <<>>, r.hostnames, r.ip,
             ev.kind = "Add" /\ ev.new = r.hostnames /\ AllRegistered(ev.calls))

DeleteFunc(obj) ==
    /\ CanDeliver
    /\ LET r == Extracted[obj] IN
       Enter("Delete", r.hostnames, <<>>, r.panics, r.hostnames, <<>>, NilIP, FALSE)

\* newIngress := oldObj.(*v1beta1.Ingress)
UpdateNewIngress(oldObj, newObj) == oldObj

\* The comparison left out: every Update re-registers.
UpdateChangedAlways(oldHostnames, newHostnames) == TRUE

\* if !reflect.DeepEqual(oldHostnames, newHostnames)

UpdateChanged(oldHostnames, newHostnames) ==
    ~DeepEqual(oldHostnames, newHostnames)

UpdateFunc(oldObj, newObj) ==
    /\ CanDeliver
    /\ LET oldIngress == oldObj
           newIngress == UpdateNewIngress(oldObj, newObj)
           o == Extracted[oldIngress]
           n == Extracted[newIngress]
           changed == UpdateChanged(o.hostnames, n.hostnames)
       IN  Enter("Update",
                 Extracted[oldObj].hostnames,
                 Extracted[newObj].hostnames,
                 o.panics \/ n.panics,
                 IF changed THEN o.hostnames ELSE <<>>,
                 IF changed THEN n.hostnames ELSE <<>>,
                 n.ip, FALSE)

\* A write to the map while main's range loop over it is running is a data
\* race: the Go runtime may stop the process ("concurrent map iteration and map
\* write"), or the write goes through.
MapWriteRaces == main.pc = "cleanup"

RaceCrash ==
    /\ MapWriteRaces
    /\ proc' = "crashed"
    /\ UNCHANGED <<servers, zeroconf, handler, ev, stop, main, hist, budget>>

\* One iteration of registerHostnames' loop.
registerHostnames ==
    /\ proc = "running"
    /\ handler.pc = "register"
    /\ LET local == Head(handler.toreg)
           rest  == Tail(handler.toreg)
           h     == Len(zeroconf) + 1
       IN
       \/ \E ok \in RegisterOutcomes :
            /\ handler' = [handler EXCEPT !.toreg = rest,
                                          !.pc = NextPc(<<>>, rest)]
            /\ hist' = [hist EXCEPT !.lateRegister = @ \/ main.pc # "wait"]
            /\ servers' = StoreServer(servers, local, ok, h)
            /\ IF ok
               THEN /\ zeroconf' = Append(zeroconf,
                                          NewServer(local, handler.ip, Port(local)))
                    /\ ev' = [ev EXCEPT !.calls =
                                Append(@, Call("register", local, h, handler.ip))]
                    /\ main' = IF main.pc = "cleanup" /\ ~Has(servers, local)
                               THEN [main EXCEPT !.added = @ \cup {local}]
                               ELSE main
               ELSE /\ ev' = [ev EXCEPT !.calls =
                                Append(@, Call("register", local, 0, handler.ip))]
                    /\ UNCHANGED <<zeroconf, main>>
            /\ UNCHANGED <<stop, proc, budget>>
       \/ RaceCrash

\* One iteration of unregisterHostnames' loop.
unregisterHostnames ==
    /\ proc = "running"
    /\ handler.pc = "unregister"
    /\ LET local == Head(handler.unreg)
           rest  == Tail(handler.unreg)
       IN
       \/ /\ handler' = [handler EXCEPT !.unreg = rest,
                                        !.pc = NextPc(rest, handler.toreg)]
          /\ IF Has(servers, local)
             THEN /\ zeroconf' = Shutdown(zeroconf, servers[local])
                  /\ servers' = MapDelete(servers, local)
                  /\ ev' = [ev EXCEPT !.calls =
                              Append(@, Call("unregister", local, servers[local], NilIP))]
                  /\ main' = [main EXCEPT !.visited = @ \ {local},
                                          !.added = @ \ {local}]
             ELSE UNCHANGED <<zeroconf, servers, ev, main>>
          /\ UNCHANGED <<stop, proc, hist, budget>>
       \/ /\ Has(servers, local)
          /\ RaceCrash

\* ----------------------------------------------------------------- main
\* The signal goroutine: sig := <-sigs; close(stop).
Signal ==
    /\ proc = "running"
    /\ ~stop
    /\ stop' = TRUE
    /\ UNCHANGED <<servers, zeroconf, handler, ev, main, proc, hist, budget>>

\* main's <-stop returns; the deferred unregisterAllHostnames begins.
mainStopped ==
    /\ proc = "running"
    /\ main.pc = "wait"
    /\ stop
    /\ main' = [pc |-> "cleanup", visited |-> {}, added |-> {}]
    /\ hist' = [hist EXCEPT !.atStop = servers]
    /\ UNCHANGED <<servers, zeroconf, handler, ev, stop, proc, budget>>

\* One iteration of unregisterAllHostnames' range loop (map order is any order).
unregisterAllHostnames ==
    /\ proc = "running"
    /\ main.pc = "cleanup"
    /\ \E local \in DOMAIN servers \ main.visited :
         /\ zeroconf' = Shutdown(zeroconf, servers[local])
         /\ main' = [main EXCEPT !.visited = @ \cup {local}]
         /\ hist' = [hist EXCEPT !.mainCalls =
                       @ \cup {[local |-> local, handle |-> servers[local]]}]
    /\ UNCHANGED <<servers, handler, ev, stop, proc, budget>>

\* The range loop ends (entries added while it ran may not have been produced),
\* main returns and the process exits.
mainReturn ==
    /\ proc = "running"
    /\ main.pc = "cleanup"
    /\ (DOMAIN servers \ main.visited) \subseteq main.added
    /\ main' = [main EXCEPT !.pc = "exited"]
    /\ proc' = "exited"
    /\ UNCHANGED <<servers, zeroconf, handler, ev, stop, hist, budget>>

\* The steps of the program when the watch delivers the Ingress objects of U.
Step(U) ==
    \/ \E obj \in U : AddFunc(obj)
    \/ \E obj \in U : DeleteFunc(obj)
    \/ \E oldObj \in U, newObj \in U : UpdateFunc(oldObj, newObj)
    \/ registerHostnames
    \/ unregisterHostnames
    \/ Signal
    \/ mainStopped
    \/ unregisterAllHostnames
    \/ mainReturn

Next == Step(Ingresses)

Spec == Init /\ [][Next]_vars

\* The same program watching three-rule Ingresses.
Next3 == Step(Ingresses3)

Spec3 == Init3 /\ [][Next3]_vars

\* The same program watching Ingresses with and without TLS.
NextTLS == Step(IngressesTLS)

SpecTLS == Init /\ [][NextTLS]_vars

\* -------------------------------------------- getIngressHostnames alone
\* Rule hosts the extractor is tried on: the suffix once, twice, alone, inside
\* the name, and absent.
HostLocalLocal == <<"a">> \o LocalSuffix \o LocalSuffix
HostLocalX == <<"a">> \o LocalSuffix \o <<"x">>
ExtractHosts == {HostA, HostX, HostLocalLocal, LocalSuffix, HostLocalX}

\* Spec.Rules of up to two rules.
ExtractRuleLists ==
    {<<>>} \cup { <<h>> : h \in ExtractHosts }
           \cup { <<g, h>> : g \in ExtractHosts, h \in ExtractHosts }

\* A status entry whose IP field does not parse.
BadIP == "not-an-ip"

ExtractIngresses ==
    [TLS : TLSValues, Rules : ExtractRuleLists, Status : {<<>>, <<IP1>>, <<BadIP>>}]

\* getIngressHostnames is about to be called on an Ingress.
InitExtract ==
    /\ servers = EmptyMap
    /\ zeroconf = <<>>
    /\ handler = IdleHandler
    /\ ev \in { [kind |-> "call", ingress |-> ingress] : ingress \in ExtractIngresses }
    /\ stop = FALSE
    /\ main = [pc |-> "wait", visited |-> {}, added |-> {}]
    /\ proc = "running"
    /\ hist = [atStop |-> EmptyMap, mainCalls |-> {},
               late |-> 0, lateEvent |-> FALSE, lateRegister |-> FALSE]
    /\ budget = 0

\* The call returns the hostnames and the IP, or panics and returns nothing.
callGetIngressHostnames ==
    /\ ev.kind = "call"
    /\ LET r == getIngressHostnames(ev.ingress) IN
       IF r.panics
       THEN /\ ev' = [kind |-> "panic", ingress |-> ev.ingress]
            /\ proc' = "crashed"
       ELSE /\ ev' = [kind |-> "return", ingress |-> ev.ingress,
                      tls |-> IngressTLS(ev.ingress),
                      hostnames |-> r.hostnames, ip |-> r.ip]
            /\ proc' = proc
    /\ UNCHANGED <<servers, zeroconf, handler, stop, main, hist, budget>>

NextExtract == callGetIngressHostnames

SpecExtract == InitExtract /\ [][NextExtract]_vars

\* ------------------------------------------------------------ properties
\* The handling of an event of this kind has returned.
Done(kind) == ev.kind = kind /\ handler.pc = "idle"

\* The handling of an event of this kind has ended: returned, or panicked.
Ended(kind) == ev.kind = kind /\ handler.pc \in {"idle", "panic"}

Calls(op) == { i \in 1..Len(ev.calls) : ev.calls[i].op = op }

Handles == 1..Len(zeroconf)

ActiveFor(local) == { h \in Handles : zeroconf[h].active /\ zeroconf[h].local = local }

\* C1: an Add handled right after a fully successful Add of the same hostnames,
\* itself with every registration succeeding, makes no register call and
\* leaves each hostname's entry with the handle it had.
C1_AddIdempotent ==
    (Done("Add") /\ ev.repeat /\ AllRegistered(ev.calls)) =>
        /\ Calls("register") = {}
        /\ Range(ev.new) \subseteq DOMAIN servers
        /\ servers = ev.pre

C3_NoStaleAdvertisement ==
    \A h \in Handles :
        zeroconf[h].active =>
            /\ Has(servers, zeroconf[h].local)
            /\ servers[zeroconf[h].local] = h

\* C4: after an Update whose old and new hostname sets differ (registrations
\* succeeding), no hostname only the old Ingress names is stored or active,
\* every hostname of the new Ingress is stored, and within the event a key's
\* unregister precedes its register.
C4_UpdateReplaces ==
    (Done("Update") /\ Range(ev.old) # Range(ev.new) /\ AllRegistered(ev.calls)) =>
        /\ \A local \in Range(ev.old) \ Range(ev.new) :
              ~Has(servers, local) /\ ActiveFor(local) = {}
        /\ \A local \in Range(ev.new) : Has(servers, local)
        /\ \A i \in Calls("register"), j \in Calls("unregister") :
              ev.calls[i].local = ev.calls[j].local => j < i

\* C5: an Update whose old and new hostnames are equal as sets makes no
\* register and no unregister call, never enters a loop, and leaves the store
\* as it found it.
C5_UpdateSameSetNoCalls ==
    (ev.kind = "Update" /\ Range(ev.old) = Range(ev.new)) =>
        /\ ev.calls = <<>>
        /\ handler.pc \in {"idle", "panic"}
        /\ servers = ev.pre

\* An Update whose new Ingress lists the same registered hostnames in another
\* order has returned.
C5_Witness ==
    /\ Done("Update")
    /\ ev.old # ev.new
    /\ Range(ev.old) = Range(ev.new)
    /\ Range(ev.old) \subseteq DOMAIN servers
    /\ Len(ev.old) = 2

\* C6: an Update that swaps one hostname of three, all three registered,
\* unregisters the removed one and registers the added one and makes no other
\* call; the two others keep their handles.
C6_UpdateOneOfThree ==
    LET removed == Range(ev.old) \ Range(ev.new)
        added   == Range(ev.new) \ Range(ev.old)
        kept    == Range(ev.old) \cap Range(ev.new)
    IN  ( /\ Done("Update")
          /\ Cardinality(Range(ev.old)) = 3
          /\ Cardinality(Range(ev.new)) = 3
          /\ Cardinality(kept) = 2
          /\ Range(ev.old) \subseteq DOMAIN ev.pre
          /\ AllRegistered(ev.calls) ) =>
            /\ { ev.calls[i].local : i \in Calls("unregister") } = removed
            /\ { ev.calls[i].local : i \in Calls("register") } = added
            /\ Len(ev.calls) = 2
            /\ \A local \in removed : ~Has(servers, local)
            /\ \A local \in added : Has(servers, local)
            /\ \A local \in kept :
                  Has(servers, local) /\ servers[local] = ev.pre[local]

\* C7: when the handling of a Delete has ended, each hostname of the Ingress
\* that was stored has been unregistered once and removed, no other call was
\* made; and a shutdown that follows such a Delete and finds the store empty
\* makes no unregister call.
C7_DeleteUnregisters ==
    LET present == Range(ev.old) \cap DOMAIN ev.pre IN
    /\ Ended("Delete") =>
        /\ \A local \in Range(ev.old) : ~Has(servers, local)
        /\ Calls("register") = {}
        /\ Len(ev.calls) = Cardinality(present)
        /\ { <<ev.calls[i].local, ev.calls[i].handle>> : i \in Calls("unregister") }
              = { <<local, ev.pre[local]>> : local \in present }
    /\ (Done("Delete") /\ main.pc # "wait" /\ hist.late = 0
            /\ hist.atStop = EmptyMap) => hist.mainCalls = {}

\* C8: when main has returned from a shutdown that began on N records, the
\* shutdown has made exactly N unregister calls, one on each of those records.
C8_ShutdownUnregistersEach ==
    proc = "exited" =>
        hist.mainCalls =
            { [local |-> local, handle |-> hist.atStop[local]] :
                local \in DOMAIN hist.atStop }

\* C9: while unregisterAllHostnames runs no handler is executing, and none
\* begins.
C9_ShutdownAlone ==
    /\ main.pc = "cleanup" => handler.pc \notin {"register", "unregister"}
    /\ ~hist.lateEvent

\* C10: no handler begins and no register call is made once the shutdown
\* unregistration has begun, and when main has returned no registration is
\* still active.
C10_ShutdownOrder ==
    /\ ~hist.lateEvent
    /\ ~hist.lateRegister
    /\ proc = "exited" => \A h \in Handles : ~zeroconf[h].active

\* C11: no handle is unregistered twice: Shutdown is only ever invoked, by a
\* handler or by the shutdown, on a handle that has not been shut down before.
C11_NoDoubleUnregister ==
    \A h \in Handles : zeroconf[h].shutdowns <= 1

\* C12: a register call that failed has left the store's entry for its
\* hostname as the event found it, a register call of the same event that
\* succeeded is stored under its hostname, and the failure ends neither the
\* handler's loop nor the process.
C12_RegisterFailureIsolated ==
    /\ \A i \in Calls("register") :
          LET c == ev.calls[i]
              same == { j \in 1..Len(ev.calls) : ev.calls[j].local = c.local }
          IN  IF c.handle = 0
              THEN same = {i} =>
                     IF Has(ev.pre, c.local)
                     THEN Has(servers, c.local) /\ servers[c.local] = ev.pre[c.local]
                     ELSE ~Has(servers, c.local)
              ELSE (\A j \in same : j <= i) =>
                     Has(servers, c.local) /\ servers[c.local] = c.handle
    /\ (main.pc = "wait" /\ ~AllRegistered(ev.calls)) =>
          /\ proc = "running"
          /\ handler.pc = NextPc(handler.unreg, handler.toreg)

\* An Add of two hostnames has returned: the first registration failed and is
\* not stored, the second succeeded and is.
C12_Witness ==
    /\ Done("Add")
    /\ Len(ev.calls) = 2
    /\ ev.calls[1].handle = 0
    /\ ev.calls[2].handle # 0
    /\ ~Has(servers, ev.calls[1].local)
    /\ Has(servers, ev.calls[2].local)

\* C13: the handling of an Add, Update or Delete that carries an Ingress with
\* an empty load-balancer status list does not panic: the process stays alive
\* for the later events.
C13_EmptyStatusNoCrash ==
    handler.pc # "panic"

\* A host ends with ".local".
EndsWithLocal(host) ==
    /\ Len(host) >= 6
    /\ \A i \in 1..6 : host[Len(host) - 6 + i] = LocalSuffix[i]

\* The hosts of the rules that end with ".local", in rule order, without their
\* last six characters.
LocalNames(rules) ==
    LET kept == SelectSeq(rules, EndsWithLocal)
    IN  [i \in 1..Len(kept) |-> SubSeq(kept[i], 1, Len(kept[i]) - 6)]

\* C14: for every Ingress the call returns, and returns exactly the rule hosts
\* that end with the local suffix, in rule order, each with the suffix stripped
\* once and each tagged with the one flag computed for the Ingress.
C14_ExtractsLocalHosts ==
    ev.kind # "call" =>
        /\ ev.kind = "return"
        /\ LET names == LocalNames(ev.ingress.Rules) IN
           ev.hostnames =
               [i \in 1..Len(names) |-> [TLS |-> ev.tls, Hostname |-> names[i]]]

\* C15: the TLS flag computed for an Ingress is true exactly when its Spec.TLS
\* list has entries: false for a missing list and for a present, empty list.
C15_TLSFlagIffNonEmpty ==
    ev.kind = "return" => (ev.tls <=> ev.ingress.TLS = "nonempty")

\* C16: every register call, failed or not, passes port 443 for a hostname
\* whose TLS flag is true and port 80 for one whose flag is false, and the
\* servers registered advertise that port.
C16_PortFromTLS ==
    /\ \A i \in Calls("register") :
          ev.calls[i].port = IF ev.calls[i].local.TLS THEN 443 ELSE 80
    /\ \A h \in Handles :
          zeroconf[h].port = IF zeroconf[h].local.TLS THEN 443 ELSE 80

\* A TLS hostname is registered on port 443 beside a non-TLS one on port 80.
C16_Witness ==
    \E g \in Handles, h \in Handles :
        /\ zeroconf[g].local.TLS /\ zeroconf[g].port = 443
        /\ ~zeroconf[h].local.TLS /\ zeroconf[h].port = 80

\* C17: when an Add whose registrations all succeeded has returned, each of its
\* hostnames is stored with the server this Add registered, which carries this
\* Add's IP, whatever another Ingress had stored under the key; and when a
\* Delete has returned none of its hostnames is stored, whichever Ingress
\* registered them.
C17_LastWriterWins ==
    /\ (Done("Add") /\ AllRegistered(ev.calls)) =>
          \A i \in Calls("register") :
              LET c == ev.calls[i] IN
              /\ Has(servers, c.local)
              /\ servers[c.local] = c.handle
              /\ zeroconf[c.handle].ip = c.ip
              /\ \A k \in DOMAIN ev.pre : ev.pre[k] # c.handle
    /\ Done("Delete") => \A local \in Range(ev.old) : ~Has(servers, local)

\* An Add has replaced the entry another Ingress, with another IP, had stored
\* under the same hostname.
C17_Witness ==
    /\ Done("Add")
    /\ \E local \in DOMAIN ev.pre \cap Range(ev.new) :
          /\ Has(servers, local)
          /\ servers[local] # ev.pre[local]
          /\ zeroconf[servers[local]].ip # zeroconf[ev.pre[local]].ip

====
